---- MODULE Spec2Model ----
(***************************************************************************)
(* Model of the Telegram signal pipeline:                                  *)
(*   app/signal_reader_telegram.py  TelegramSignalParser, parse_file_once, *)
(*                                  tail_file, ist_epoch_for_trade_time    *)
(*   app/telegram_signal_live.py    Strategy19Follower._filter,            *)
(*                                  Strategy19Follower._handle_signal      *)
(*                                                                         *)
(* Python's Optional values are sequences of length 0 (None) or 1.         *)
(* A text line is abstracted to what the module's regular expressions and  *)
(* prefix tests can see of it: a record [k, v, w] with k the shape of the  *)
(* line, v the text captured by the regular expression of that shape, and  *)
(* w the direction tokens found in the line, in order.                     *)
(***************************************************************************)
EXTENDS Integers, Sequences, FiniteSets, TLC

VARIABLES
    state,        \* TelegramSignalParser._state: dict, a function on a subset of Keys
    block_lines,  \* TelegramSignalParser._block_lines
    seen,         \* the stream source's set of forwarded keys
    out,          \* the signals the stream source has forwarded, in order
    fed,          \* history: the lines fed so far
    rets,         \* history: what feed_line returned for each of them
    script,       \* the lines a block run feeds, in order
    pos,          \* the number of lines of script fed so far
    hhmm,         \* ist_epoch_for_trade_time: the fields of hhmm.split(":")
    ref_ts,       \* ist_epoch_for_trade_time: ref_ts, in milliseconds
    tz,           \* the UTC offset of tz, in seconds
    resolved,     \* what ist_epoch_for_trade_time returned, None before the call
    cfg,          \* Strategy19Follower.cfg, and whether execute_cb is set
    now,          \* the clock time.time() reads
    seen_keys,    \* Strategy19Follower.seen_keys
    cooldowns,    \* Strategy19Follower.cooldowns: dict, a function on a subset of Assets
    cur,          \* the _handle_signal call in progress and its position, or None
    last,         \* history: the latest row _log_signal wrote, with what _filter read
    lastDone,     \* history: per asset, when a _handle_signal call last completed
    ncalls,       \* the number of _handle_signal calls made
    tasks,        \* the _on_msg handlers started, one per message, in order
    calls,        \* history: the execute_cb calls made
    log           \* history: the rows _log_signal wrote, with the cooldown write

parserVars == <<state, block_lines, seen, out, fed, rets, script, pos>>
resolverVars == <<hhmm, ref_ts, tz, resolved>>
followerVars == <<cfg, now, seen_keys, cooldowns, cur, last, lastDone, ncalls>>
liveVars == <<tasks, calls, log>>
vars == <<parserVars, resolverVars, followerVars, liveVars>>

None == <<>>
Some(v) == <<v>>

----------------------------------------------------------------------------
(* Lines                                                                   *)

Line(k, v, w) == [k |-> k, v |-> v, w |-> w]

BlankLine    == Line("blank", "", <<>>)
WinLine      == Line("win", "", <<>>)
GlyphLine    == Line("other", "", <<"GLYPH_DOWN">>)
CardBadLine  == Line("card", "", <<>>)
AssetLine(a) == Line("asset", a, <<>>)
TfLine       == Line("tf", "1", <<>>)
TtLine       == Line("tt", "10:00", <<>>)
CallLine     == Line("other", "", <<"GLYPH_UP", " call">>)
PutLine      == Line("other", "", <<"GLYPH_DOWN", " put">>)
TrendLine    == Line("trend", "sell", <<>>)
ForecastLine == Line("forecast", "73", <<>>)
PayoutLine   == Line("payout", "82.0", <<>>)
\* "<card> EUR-PUT": a ticker that holds a direction word
AssetPutLine == Line("asset", "EUR-PUT", <<"put">>)

\* str.lower() of one token of a line. The glyph literals of the source hold
\* an upper-case letter (U+0178), which lower() changes.
Lower(tok) ==
    CASE tok = "GLYPH_UP"   -> "glyph_up"
      [] tok = "GLYPH_DOWN" -> "glyph_down"
      [] OTHER              -> tok

\* int() and float() of the captured texts, str() of a float, str.title()
ParseInt(s) == CASE s = "1" -> 1 [] s = "5" -> 5 [] OTHER -> 0
ParseFloat(s) ==
    CASE s = "73" -> 73 [] s = "73.0" -> 73 [] s = "82.0" -> 82 [] OTHER -> 0
StrOfFloat(x) == CASE x = 73 -> "73.0" [] x = 82 -> "82.0" [] OTHER -> "0.0"
Title(s) == CASE s = "sell" -> "Sell" [] s = "buy" -> "Buy" [] OTHER -> s

\* line.strip() is empty
IsBlank(l) == l.k = "blank"
\* s.upper().startswith("WIN")
StartsWithWin(l) == l.k = "win"
\* s.startswith(<card glyph>)
StartsWithCard(l) == l.k \in {"asset", "card"}

\* The regular expressions: the captured group, or None
_ASSET_LINE_RE(l) == IF l.k = "asset"    THEN Some(l.v) ELSE None
_TIMEFRAME_RE(l)  == IF l.k = "tf"       THEN Some(l.v) ELSE None
_TRADE_TIME_RE(l) == IF l.k = "tt"       THEN Some(l.v) ELSE None
_TREND_RE(l)      == IF l.k = "trend"    THEN Some(l.v) ELSE None
_FORECAST_RE(l)   == IF l.k = "forecast" THEN Some(l.v) ELSE None
_PAYOUT_RE(l)     == IF l.k = "payout"   THEN Some(l.v) ELSE None

Word(tok) == IF tok \in {"call", " call"} THEN "call" ELSE "put"

\* _DIRECTION_WORD_RE.search: the first whole word call or put of the line
_DIRECTION_WORD_RE(l) ==
    LET idx == {i \in 1..Len(l.w) : l.w[i] \in {"call", " call", "put", " put"}}
    IN  IF idx = {} THEN None
        ELSE Some(Word(l.w[CHOOSE i \in idx : \A j \in idx : i <= j]))

_normalize_direction_from_line(l) ==
    LET s_low == {Lower(l.w[i]) : i \in 1..Len(l.w)}
    IN  IF "GLYPH_UP" \in s_low \/ " call" \in s_low THEN Some("call")
        ELSE IF "GLYPH_DOWN" \in s_low \/ " put" \in s_low THEN Some("put")
        ELSE _DIRECTION_WORD_RE(l)

----------------------------------------------------------------------------
(* TelegramSignalParser                                                    *)

Keys == {"asset", "direction", "timeframe_min", "trade_time", "trend",
         "forecast_pct", "payout_pct"}

EmptyDict == [k \in {} |-> ""]

\* dict.get(k)
Get(d, k) == IF k \in DOMAIN d THEN Some(d[k]) ELSE None
\* d[k] = v
Put(d, k, v) == [x \in DOMAIN d \cup {k} |-> IF x = k THEN v ELSE d[x]]
\* d.pop(k, None)
Pop(d, k) == [x \in DOMAIN d \ {k} |-> d[x]]
\* d[k] = f(m.group(1)) when the match m is not None
PutMatch(d, k, m) == IF m = None THEN d ELSE Put(d, k, m[1])

\* self._block_lines[-12:]
RawWindow == 12
LastLines(bl) ==
    IF Len(bl) <= RawWindow THEN bl ELSE SubSeq(bl, Len(bl) - RawWindow + 1, Len(bl))

TelegramSignal(st, bl) ==
    [asset         |-> st["asset"],
     direction     |-> st["direction"],
     timeframe_min |-> IF Get(st, "timeframe_min") # None
                          THEN Some(ParseInt(st["timeframe_min"])) ELSE None,
     trade_time    |-> Get(st, "trade_time"),
     trend         |-> Get(st, "trend"),
     forecast_pct  |-> IF Get(st, "forecast_pct") # None
                          THEN Some(ParseFloat(st["forecast_pct"])) ELSE None,
     payout_pct    |-> IF Get(st, "payout_pct") # None
                          THEN Some(ParseFloat(st["payout_pct"])) ELSE None,
     raw_block     |-> LastLines(bl)]

\* A variant that keeps the direction after emitting.
_maybe_emit_keep_direction(st, bl, partial_ok) ==
    IF Get(st, "asset") = None \/ Get(st, "direction") = None
    THEN [st |-> st, ret |-> None]
    ELSE IF ~partial_ok /\ Get(st, "trade_time") = None
    THEN [st |-> st, ret |-> None]
    ELSE [st |-> st, ret |-> Some(TelegramSignal(st, bl))]

\* A variant that clears the whole pending record after emitting.
_maybe_emit_clear_all(st, bl, partial_ok) ==
    IF Get(st, "asset") = None \/ Get(st, "direction") = None
    THEN [st |-> st, ret |-> None]
    ELSE IF ~partial_ok /\ Get(st, "trade_time") = None
    THEN [st |-> st, ret |-> None]
    ELSE [st |-> EmptyDict, ret |-> Some(TelegramSignal(st, bl))]

\* _maybe_emit: the state after the call and the value returned
_maybe_emit(st, bl, partial_ok) ==
    IF Get(st, "asset") = None \/ Get(st, "direction") = None
    THEN [st |-> st, ret |-> None]
    ELSE IF ~partial_ok /\ Get(st, "trade_time") = None
    THEN [st |-> st, ret |-> None]
    ELSE [st  |-> Pop(st, "direction"),
          ret |-> Some(TelegramSignal(st, bl))]

\* The field updates of feed_line, lines 101 to 141, in the code's order
ApplyFields(st, l) ==
    LET s1 == PutMatch(st, "asset", _ASSET_LINE_RE(l))
        s2 == PutMatch(s1, "timeframe_min", _TIMEFRAME_RE(l))
        s3 == PutMatch(s2, "trade_time", _TRADE_TIME_RE(l))
        s4 == PutMatch(s3, "direction", _normalize_direction_from_line(l))
        s5 == IF _TREND_RE(l) = None THEN s4
              ELSE Put(s4, "trend", Title(_TREND_RE(l)[1]))
        s6 == IF _FORECAST_RE(l) = None THEN s5
              ELSE Put(s5, "forecast_pct", StrOfFloat(ParseFloat(_FORECAST_RE(l)[1])))
        s7 == IF _PAYOUT_RE(l) = None THEN s6
              ELSE Put(s6, "payout_pct", StrOfFloat(ParseFloat(_PAYOUT_RE(l)[1])))
    IN  s7

\* A variant that does not reset the pending record on an asset marker.
feed_line_no_reset(st, bl, l) ==
    IF IsBlank(l)
    THEN LET e == _maybe_emit(st, bl, FALSE)
         IN  [st |-> e.st, bl |-> bl, ret |-> e.ret]
    ELSE LET bl1  == Append(bl, l)
             mark == StartsWithWin(l) \/ StartsWithCard(l)
             prev == IF mark THEN _maybe_emit(st, bl1, FALSE)
                             ELSE [st |-> st, ret |-> None]
         IN  IF mark /\ prev.ret # None
             THEN [st |-> prev.st, bl |-> bl1, ret |-> prev.ret]
             ELSE LET e == _maybe_emit(ApplyFields(prev.st, l), bl1, TRUE)
                  IN  [st |-> e.st, bl |-> bl1, ret |-> e.ret]

\* feed_line: the parser after the call and the value returned
feed_line(st, bl, l) ==
    IF IsBlank(l)
    THEN LET e == _maybe_emit(st, bl, FALSE)
         IN  [st |-> e.st, bl |-> bl, ret |-> e.ret]
    ELSE LET bl1  == Append(bl, l)
             mark == StartsWithWin(l) \/ StartsWithCard(l)
             prev == IF mark THEN _maybe_emit(st, bl1, FALSE)
                             ELSE [st |-> st, ret |-> None]
             st2  == IF StartsWithCard(l) THEN EmptyDict ELSE prev.st
             bl2  == IF StartsWithCard(l) THEN <<l>> ELSE bl1
         IN  IF mark /\ prev.ret # None
             THEN [st |-> st2, bl |-> bl2, ret |-> prev.ret]
             ELSE LET e == _maybe_emit(ApplyFields(st2, l), bl2, TRUE)
                  IN  [st |-> e.st, bl |-> bl2, ret |-> e.ret]

----------------------------------------------------------------------------
(* Signal stream sources: parse_file_once and tail_file                    *)

\* TelegramSignal.key: asset|trade_time or ''|direction
key(sig) ==
    <<sig.asset, IF sig.trade_time = None THEN "" ELSE sig.trade_time[1], sig.direction>>

\* A variant that forwards every emission.
Forward_no_dedup(sn, o, ret) ==
    IF ret = None THEN [seen |-> sn, out |-> o]
    ELSE [seen |-> sn \cup {key(ret[1])}, out |-> Append(o, ret[1])]

\* The body of the read loop after feed_line: lines 215-220 and 197-202
Forward(sn, o, ret) ==
    IF ret = None THEN [seen |-> sn, out |-> o]
    ELSE IF key(ret[1]) \in sn THEN [seen |-> sn, out |-> o]
    ELSE [seen |-> sn \cup {key(ret[1])}, out |-> Append(o, ret[1])]

\* One iteration of the read loop on line l
ReadLine(l) ==
    LET r == feed_line(state, block_lines, l)
        f == Forward(seen, out, r.ret)
    IN  /\ state' = r.st
        /\ block_lines' = r.bl
        /\ seen' = f.seen
        /\ out' = f.out
        /\ fed' = Append(fed, l)
        /\ rets' = Append(rets, r.ret)

----------------------------------------------------------------------------
(* Spec: one stream source reading any lines                               *)

MaxFeed == 4

Lines == {BlankLine, WinLine, GlyphLine, CardBadLine, AssetLine("EURUSD"),
          AssetLine("USDBDT-OTC"), AssetPutLine, TfLine, TtLine, CallLine,
          PutLine, TrendLine, ForecastLine, PayoutLine}

InitParser ==
    /\ state = EmptyDict
    /\ block_lines = <<>>
    /\ seen = {}
    /\ out = <<>>
    /\ fed = <<>>
    /\ rets = <<>>

ResolverIdle ==
    /\ hhmm = <<>>
    /\ ref_ts = 0
    /\ tz = 0
    /\ resolved = None

LiveIdle ==
    /\ tasks = <<>>
    /\ calls = <<>>
    /\ log = <<>>

FollowerIdle ==
    /\ LiveIdle
    /\ cfg = <<>>
    /\ now = 0
    /\ seen_keys = {}
    /\ cooldowns = <<>>
    /\ cur = None
    /\ last = None
    /\ lastDone = <<>>
    /\ ncalls = 0

Init ==
    /\ InitParser
    /\ script = <<>>
    /\ pos = 0
    /\ ResolverIdle
    /\ FollowerIdle

Feed ==
    /\ Len(fed) < MaxFeed
    /\ \E l \in Lines : ReadLine(l)
    /\ UNCHANGED <<script, pos, resolverVars, followerVars, liveVars>>

Next == Feed

Spec == Init /\ [][Next]_vars

----------------------------------------------------------------------------
(* SpecBlock: one stream source reading the same complete block twice,     *)
(* the seven field lines in any one order, each time closed by a blank     *)
(* line                                                                    *)

BlockLines == {AssetLine("EURUSD"), TfLine, TtLine, PutLine, TrendLine,
               ForecastLine, PayoutLine}

BlockLen == Cardinality(BlockLines)

Orders == {s \in [1..BlockLen -> BlockLines] : \A i, j \in 1..BlockLen : s[i] = s[j] => i = j}

InitBlock ==
    /\ InitParser
    /\ \E o \in Orders : script = o \o <<BlankLine>> \o o \o <<BlankLine>>
    /\ pos = 0
    /\ ResolverIdle
    /\ FollowerIdle

FeedScript ==
    /\ pos < Len(script)
    /\ ReadLine(script[pos + 1])
    /\ pos' = pos + 1
    /\ UNCHANGED <<script, resolverVars, followerVars, liveVars>>

NextBlock == FeedScript

SpecBlock == InitBlock /\ [][NextBlock]_vars

----------------------------------------------------------------------------
(* Schedule resolver: ist_epoch_for_trade_time                             *)
(* A field of hhmm.split(":") is Some(n) when int() reads it as n and None *)
(* when int() raises ValueError on it. Instants are in milliseconds where  *)
(* the code holds a datetime, and in seconds where it holds an int.        *)

DaySeconds == 86400
Unscheduled == 0

IntRaises(f) == f = None

HourOK(h) == h \in 0..23
SixtyOK(m) == m \in 0..59

\* now.replace(hour=h, minute=m, second=s, microsecond=0), as local
\* milliseconds, for now given as local milliseconds
ReplaceTime(now_local, h, m, s) ==
    (now_local - (now_local % (DaySeconds * 1000))) + (h * 3600 + m * 60 + s) * 1000

\* A variant that rolls over only when the time is strictly past.
ist_epoch_strictly_past(parts, ref, off) ==
    IF Len(parts) < 2 THEN Unscheduled
    ELSE IF IntRaises(parts[1]) \/ IntRaises(parts[2]) THEN Unscheduled
    ELSE IF Len(parts) > 2 /\ IntRaises(parts[3]) THEN Unscheduled
    ELSE LET h == parts[1][1]
             m == parts[2][1]
             s == IF Len(parts) > 2 THEN parts[3][1] ELSE 0
             now_dt == ref + off * 1000
         IN  IF ~(HourOK(h) /\ SixtyOK(m) /\ SixtyOK(s)) THEN Unscheduled
             ELSE LET trade_dt == ReplaceTime(now_dt, h, m, s)
                      rolled   == IF trade_dt < now_dt
                                  THEN trade_dt + DaySeconds * 1000 ELSE trade_dt
                  IN  (rolled - off * 1000) \div 1000

\* ist_epoch_for_trade_time(hhmm, ref_ts) under a zone of fixed offset off:
\* the value returned, Unscheduled when the body raised
ist_epoch_for_trade_time(parts, ref, off) ==
    IF Len(parts) < 2 THEN Unscheduled
    ELSE IF IntRaises(parts[1]) \/ IntRaises(parts[2]) THEN Unscheduled
    ELSE IF Len(parts) > 2 /\ IntRaises(parts[3]) THEN Unscheduled
    ELSE LET h == parts[1][1]
             m == parts[2][1]
             s == IF Len(parts) > 2 THEN parts[3][1] ELSE 0
             now_dt == ref + off * 1000
         IN  IF ~(HourOK(h) /\ SixtyOK(m) /\ SixtyOK(s)) THEN Unscheduled
             ELSE LET trade_dt == ReplaceTime(now_dt, h, m, s)
                      rolled   == IF trade_dt <= now_dt
                                  THEN trade_dt + DaySeconds * 1000 ELSE trade_dt
                  IN  (rolled - off * 1000) \div 1000

\* The zone: Asia/Kolkata when zoneinfo can be imported, UTC otherwise
TzOffsets == {19800, 0}

BaseDay == 3

\* Seconds of the day of the reference instants: around 10:00 and the day
\* change, in UTC and in a zone 5 h 30 min ahead
RefSeconds == {0, 1, 16199, 16200, 16201, 35999, 36000, 36001, 66599, 66600,
               66601, 86340, 86399}

RefInstants ==
    {(BaseDay * DaySeconds + s) * 1000 + ms : s \in RefSeconds, ms \in {0, 500}}

WellFormedTimes ==
    {<<Some(h), Some(m)>> : h \in {0, 10, 23}, m \in {0, 59}}
    \cup {<<Some(h), Some(m), Some(s)>> : h \in {0, 10, 23}, m \in {0, 59}, s \in {0, 59}}

\* Out of range though matched by _TRADE_TIME_RE: hour 24-29, minute or
\* second 60-99
OutOfRangeTimes ==
    {<<Some(h), Some(m)>> : h \in {24, 29}, m \in {0, 59}}
    \cup {<<Some(h), Some(m)>> : h \in {10}, m \in {60, 99}}
    \cup {<<Some(10), Some(0), Some(s)>> : s \in {60, 99}}

NonNumericTimes ==
    {<<None, Some(0)>>, <<Some(10), None>>, <<Some(10), Some(0), None>>,
     <<None, None, None>>}

WrongCountTimes ==
    {<<>>, <<Some(10)>>, <<None>>, <<Some(10), Some(0), Some(0), Some(0)>>,
     <<Some(10), Some(0), Some(0), None>>}

TradeTimes == WellFormedTimes \cup OutOfRangeTimes \cup NonNumericTimes \cup WrongCountTimes

InitResolver ==
    /\ InitParser
    /\ script = <<>>
    /\ pos = 0
    /\ hhmm \in TradeTimes
    /\ ref_ts \in RefInstants
    /\ tz \in TzOffsets
    /\ resolved = None
    /\ FollowerIdle

Resolve ==
    /\ resolved = None
    /\ resolved' = Some(ist_epoch_for_trade_time(hhmm, ref_ts, tz))
    /\ UNCHANGED <<parserVars, hhmm, ref_ts, tz, followerVars, liveVars>>

NextResolver == Resolve

SpecResolver == InitResolver /\ [][NextResolver]_vars

----------------------------------------------------------------------------
(* Admission filter: Strategy19Follower._filter and _handle_signal         *)
(* Times are whole seconds. The reason f"forecast<{min_forecast}" is       *)
(* written "forecast<min".                                                 *)

Assets == {"EURUSD", "USDBDT-OTC"}

\* ScheduledTelegramSignal as schedule_signal leaves it: the fields _filter
\* and _handle_signal read, ignored False and reason empty
ScheduledTelegramSignal(asset, direction, trade_time, forecast_pct, trade_epoch, lead) ==
    [asset        |-> asset,
     direction    |-> direction,
     trade_time   |-> trade_time,
     forecast_pct |-> forecast_pct,
     trade_epoch  |-> trade_epoch,
     entry_lead_s |-> lead,
     ignored      |-> FALSE,
     reason       |-> ""]

\* schedule_signal: the ScheduledTelegramSignal of a parsed signal, for epoch
\* the value the schedule resolver gave for its trade time. The signal is
\* unscheduled, trade_epoch absent, when it has no trade time or the resolver
\* gave the sentinel.
schedule_signal(asset, direction, trade_time, forecast_pct, epoch, lead) ==
    ScheduledTelegramSignal(asset, direction, trade_time, forecast_pct,
        IF trade_time = None \/ epoch = Unscheduled THEN None ELSE Some(epoch), lead)

\* self.cooldowns.get(asset, 0.0)
CooldownUntil(cd, asset) == IF asset \in DOMAIN cd THEN cd[asset] ELSE 0

Verdict(sig, ignored, reason) == [sig EXCEPT !.ignored = ignored, !.reason = reason]

\* A variant that checks the cooldown before the forecast.
_filter_cooldown_first(sig, t, cd, c) ==
    IF t < CooldownUntil(cd, sig.asset)
    THEN Verdict(sig, TRUE, "asset_cooldown")
    ELSE IF sig.forecast_pct # None /\ sig.forecast_pct[1] < c.min_forecast
    THEN Verdict(sig, TRUE, "forecast<min")
    ELSE IF /\ sig.trade_epoch # None
            /\ sig.trade_epoch[1] - sig.entry_lead_s < t
            /\ t - (sig.trade_epoch[1] - sig.entry_lead_s) > c.allow_past_grace_s
    THEN Verdict(sig, TRUE, "missed_entry")
    ELSE Verdict(sig, sig.ignored, "ok")

\* A variant that counts an entry late by exactly the grace as missed.
_filter_grace_exclusive(sig, t, cd, c) ==
    IF sig.forecast_pct # None /\ sig.forecast_pct[1] < c.min_forecast
    THEN Verdict(sig, TRUE, "forecast<min")
    ELSE IF t < CooldownUntil(cd, sig.asset)
    THEN Verdict(sig, TRUE, "asset_cooldown")
    ELSE IF /\ sig.trade_epoch # None
            /\ sig.trade_epoch[1] - sig.entry_lead_s < t
            /\ t - (sig.trade_epoch[1] - sig.entry_lead_s) >= c.allow_past_grace_s
    THEN Verdict(sig, TRUE, "missed_entry")
    ELSE Verdict(sig, sig.ignored, "ok")

\* A variant that reads an absent trade_epoch as 0.
_filter_epoch_or_zero(sig, t, cd, c) ==
    LET epoch == IF sig.trade_epoch = None THEN 0 ELSE sig.trade_epoch[1]
    IN  IF sig.forecast_pct # None /\ sig.forecast_pct[1] < c.min_forecast
        THEN Verdict(sig, TRUE, "forecast<min")
        ELSE IF t < CooldownUntil(cd, sig.asset)
        THEN Verdict(sig, TRUE, "asset_cooldown")
        ELSE IF /\ epoch - sig.entry_lead_s < t
                /\ t - (epoch - sig.entry_lead_s) > c.allow_past_grace_s
        THEN Verdict(sig, TRUE, "missed_entry")
        ELSE Verdict(sig, sig.ignored, "ok")

\* _filter(sig) with time.time() = t, self.cooldowns = cd and self.cfg = c
_filter(sig, t, cd, c) ==
    IF sig.forecast_pct # None /\ sig.forecast_pct[1] < c.min_forecast
    THEN Verdict(sig, TRUE, "forecast<min")
    ELSE IF t < CooldownUntil(cd, sig.asset)
    THEN Verdict(sig, TRUE, "asset_cooldown")
    ELSE IF /\ sig.trade_epoch # None
            /\ sig.trade_epoch[1] - sig.entry_lead_s < t
            /\ t - (sig.trade_epoch[1] - sig.entry_lead_s) > c.allow_past_grace_s
    THEN Verdict(sig, TRUE, "missed_entry")
    ELSE Verdict(sig, sig.ignored, "ok")

\* A variant that starts a cooldown only for an accepted signal.
SetCooldown_if_accepted(cd, sig, t, c) ==
    IF sig.ignored THEN cd
    ELSE [a \in DOMAIN cd \cup {sig.asset} |->
            IF a = sig.asset THEN t + c.cooldown_same_asset_s ELSE cd[a]]

\* self.cooldowns[sig.asset] = time.time() + self.cfg.cooldown_same_asset_s
SetCooldown(cd, sig, t, c) ==
    [a \in DOMAIN cd \cup {sig.asset} |->
        IF a = sig.asset THEN t + c.cooldown_same_asset_s ELSE cd[a]]

MaxTime == 4
MaxCalls == 2

Configs ==
    [min_forecast          : {0, 70},
     cooldown_same_asset_s : {2},
     allow_past_grace_s    : {1},
     lead_s                : {1},
     trade                 : BOOLEAN,
     execute_cb            : {TRUE}]

\* What the schedule resolver gives for the trade times of the signals: an
\* epoch of the follower's clock for "10:00", the sentinel for "25:00"
Epochs(trade_time) ==
    IF trade_time = Some("10:00") THEN {2, 4}
    ELSE {ist_epoch_for_trade_time(<<Some(25), Some(0)>>, 0, 0)}

\* The signals schedule_signal hands to _handle_signal
Signals(c) ==
    {schedule_signal(a, x[1], x[2], f, x[3], c.lead_s) :
        a \in Assets, f \in {None, Some(60)},
        x \in {<<d, tt, e>> \in {"call", "put"} \X {None, Some("10:00"), Some("25:00")}
                                  \X {Unscheduled, 2, 4} : e \in Epochs(tt)}}

InitFollower ==
    /\ InitParser
    /\ script = <<>>
    /\ pos = 0
    /\ ResolverIdle
    /\ cfg \in Configs
    /\ now = 1
    /\ seen_keys = {}
    /\ cooldowns = <<>>
    /\ cur = None
    /\ last = None
    /\ lastDone = <<>>
    /\ ncalls = 0
    /\ LiveIdle

Tick ==
    /\ now < MaxTime
    /\ now' = now + 1
    /\ UNCHANGED <<parserVars, resolverVars, liveVars, cfg, seen_keys, cooldowns, cur, last,
                   lastDone, ncalls>>

\* _handle_signal on a key already seen: lines 151-153
HandleSeen ==
    /\ cur = None
    /\ ncalls < MaxCalls
    /\ \E sig \in Signals(cfg) : key(sig) \in seen_keys
    /\ ncalls' = ncalls + 1
    /\ UNCHANGED <<parserVars, resolverVars, liveVars, cfg, now, seen_keys, cooldowns, cur, last,
                   lastDone>>

\* _handle_signal on a new key, up to the callback: lines 151-165
HandleNew ==
    /\ cur = None
    /\ ncalls < MaxCalls
    /\ \E sig \in Signals(cfg) :
          /\ key(sig) \notin seen_keys
          /\ seen_keys' = seen_keys \cup {key(sig)}
          /\ LET v == _filter(sig, now, cooldowns, cfg)
             IN  /\ last' = Some([sig       |-> v,
                                   t         |-> now,
                                   cd_until  |-> CooldownUntil(cooldowns, sig.asset),
                                   cd_before |-> cooldowns,
                                   prev_done |-> IF sig.asset \in DOMAIN lastDone
                                                 THEN Some(lastDone[sig.asset]) ELSE None])
                 /\ cur' = Some([sig |-> v,
                                  pc  |-> IF cfg.trade /\ ~v.ignored /\ cfg.execute_cb
                                          THEN "await" ELSE "write"])
    /\ ncalls' = ncalls + 1
    /\ UNCHANGED <<parserVars, resolverVars, liveVars, cfg, now, cooldowns, lastDone>>

\* await self.execute_cb(sig) returns: line 167
CallbackReturns ==
    /\ cur # None
    /\ cur[1].pc = "await"
    /\ cur' = Some([cur[1] EXCEPT !.pc = "write"])
    /\ UNCHANGED <<parserVars, resolverVars, liveVars, cfg, now, seen_keys, cooldowns, last,
                   lastDone, ncalls>>

\* await self.execute_cb(sig) raises an Exception, which is caught and
\* printed: lines 168-169
CallbackRaises ==
    /\ cur # None
    /\ cur[1].pc = "await"
    /\ cur' = Some([cur[1] EXCEPT !.pc = "write", !.sig.reason = "ok, exec_err"])
    /\ UNCHANGED <<parserVars, resolverVars, liveVars, cfg, now, seen_keys, cooldowns, last,
                   lastDone, ncalls>>

\* await self.execute_cb(sig) raises CancelledError, which is no Exception
\* and leaves _handle_signal: lines 166-168
CallbackCancelled ==
    /\ cur # None
    /\ cur[1].pc = "await"
    /\ cur' = None
    /\ UNCHANGED <<parserVars, resolverVars, liveVars, cfg, now, seen_keys, cooldowns, last,
                   lastDone, ncalls>>

\* The end of _handle_signal: lines 171-173
WriteCooldown ==
    /\ cur # None
    /\ cur[1].pc = "write"
    /\ cooldowns' = SetCooldown(cooldowns, cur[1].sig, now, cfg)
    /\ lastDone' = [a \in DOMAIN lastDone \cup {cur[1].sig.asset} |->
                       IF a = cur[1].sig.asset THEN now ELSE lastDone[a]]
    /\ cur' = None
    /\ UNCHANGED <<parserVars, resolverVars, liveVars, cfg, now, seen_keys, last, ncalls>>

NextFollower ==
    \/ Tick
    \/ HandleSeen
    \/ HandleNew
    \/ CallbackReturns
    \/ CallbackRaises
    \/ CallbackCancelled
    \/ WriteCooldown

SpecFollower == InitFollower /\ [][NextFollower]_vars

----------------------------------------------------------------------------
(* SpecLive: the follower on a chat, telegram_signal_live.py               *)
(*                                                                         *)
(* The client starts one _on_msg handler per message and runs the handlers *)
(* as tasks of one event loop: a handler runs alone from one await to the  *)
(* next, and the only await that suspends it is the one of the callback.   *)

MaxMsgs == 2

\* The follower's tables and the histories, as one handler sees them
World ==
    [st    |-> state,
     bl    |-> block_lines,
     fed   |-> fed,
     rets  |-> rets,
     sk    |-> seen_keys,
     cd    |-> cooldowns,
     calls |-> calls,
     log   |-> log,
     n     |-> ncalls]

\* The end of _handle_signal for the signal of log row `row`: lines 171-173
Cooled(w, sig, row, t, c) ==
    [w EXCEPT !.cd = SetCooldown(@, sig, t, c), !.log[row].done = Some(t)]

\* _handle_signal after the test of the key: the key is added and the
\* filtered signal v is logged, lines 154-156
Logged(w, k, v, t) ==
    [w EXCEPT !.n = @ + 1,
              !.sk = @ \cup {k},
              !.log = Append(@, [key |-> k, asset |-> v.asset, sig |-> v,
                                 t |-> t, done |-> None])]

\* _handle_signal from line 165 on: the logged signal v goes to the callback,
\* which is awaited, or straight to the cooldown write. waiting is the signal
\* handed to the callback and its log row.
Dispatch(w, k, v, t, c) ==
    IF c.trade /\ ~v.ignored /\ c.execute_cb
    THEN [w       |-> [w EXCEPT !.calls = Append(@, [key |-> k, asset |-> v.asset,
                                                      t |-> t])],
          waiting |-> Some([sig |-> v, row |-> Len(w.log)])]
    ELSE [w |-> Cooled(w, v, Len(w.log), t, c), waiting |-> None]

\* A variant that filters a signal whose key was seen.
_handle_signal_no_seen_check(w, sched, t, c) ==
    Dispatch(Logged(w, key(sched), _filter(sched, t, w.cd, c), t),
             key(sched), _filter(sched, t, w.cd, c), t, c)

\* _handle_signal from its start to the await of the callback, or to its end
\* when it awaits nothing: lines 150-173
_handle_signal(w, sched, t, c) ==
    IF key(sched) \in w.sk
    THEN [w |-> [w EXCEPT !.n = @ + 1], waiting |-> None]
    ELSE Dispatch(Logged(w, key(sched), _filter(sched, t, w.cd, c), t),
                  key(sched), _filter(sched, t, w.cd, c), t, c)

\* The parser and the histories after feed_line gave r for line l
Fed(w, l, r) ==
    [w EXCEPT !.st = r.st, !.bl = r.bl,
              !.fed = Append(@, l),
              !.rets = Append(@, r.ret)]

\* Lines 193-200 for the value ret of feed_line: a Signal is scheduled and
\* handled. The messages of the chat carry no trade time, so schedule_signal
\* has no epoch to resolve.
OnSig(w, ret, t, c) ==
    IF ret = None THEN [w |-> w, waiting |-> None]
    ELSE _handle_signal(w,
                        schedule_signal(ret[1].asset, ret[1].direction, ret[1].trade_time,
                                        ret[1].forecast_pct, Unscheduled, c.lead_s),
                        t, c)

\* One turn of the loop of _on_msg, for r the value feed_line gives
OnLineFed(w, l, r, t, c) == OnSig(Fed(w, l, r), r.ret, t, c)

\* One turn of the loop of _on_msg: lines 191-200
OnLine(w, l, t, c) == OnLineFed(w, l, feed_line(w.st, w.bl, l), t, c)

\* The handler p after line i of its message, unless it awaits already
OnMsgStep(p, h, lines, i) ==
    IF p.waiting # None THEN p
    ELSE [w |-> h.w, rest |-> SubSeq(lines, i + 1, Len(lines)), waiting |-> h.waiting]

\* The loop of _on_msg over the lines left, up to the next await of a
\* callback or the end of the message: lines 191-200
_on_msg(w, lines, t, c) ==
    LET run[i \in 0..Len(lines)] ==
            IF i = 0 THEN [w |-> w, rest |-> lines, waiting |-> None]
            ELSE OnMsgStep(run[i - 1], OnLine(run[i - 1].w, lines[i], t, c), lines, i)
    IN  run[Len(lines)]

\* event.raw_text.splitlines() of the messages of the chat
LiveMsgs ==
    {<<AssetLine("EURUSD"), CallLine, PutLine>>,
     <<AssetLine("EURUSD"), PutLine>>,
     <<AssetLine("USDBDT-OTC"), CallLine>>}

InitLive == InitFollower

\* What a run of a handler leaves in the follower
Commit(w) ==
    /\ state' = w.st
    /\ block_lines' = w.bl
    /\ fed' = w.fed
    /\ rets' = w.rets
    /\ seen_keys' = w.sk
    /\ cooldowns' = w.cd
    /\ calls' = w.calls
    /\ log' = w.log
    /\ ncalls' = w.n

\* The handler of a run r that went on after the failure `fail`
Task(r, fail, cooled) ==
    [rest    |-> r.rest,
     waiting |-> r.waiting,
     pc      |-> IF r.waiting = None THEN "done" ELSE "await",
     fail    |-> fail,
     cooled  |-> cooled]

\* A message arrives and its handler runs to its first await: lines 188-200
OnMsg ==
    /\ Len(tasks) < MaxMsgs
    /\ \E m \in LiveMsgs :
          \E r \in {_on_msg(World, m, now, cfg)} :
              /\ Commit(r.w)
              /\ tasks' = Append(tasks, Task(r, "", TRUE))
    /\ UNCHANGED <<seen, out, script, pos, resolverVars, cfg, now, cur, last, lastDone>>

\* Handler i goes on after its await: the cooldown write of lines 171-173,
\* then the lines left of its message
Resume(i) ==
    _on_msg(Cooled(World, tasks[i].waiting[1].sig, tasks[i].waiting[1].row, now, cfg),
            tasks[i].rest, now, cfg)

\* await self.execute_cb(sig) returns: line 167
ExecReturns ==
    \E i \in DOMAIN tasks :
        /\ tasks[i].pc = "await"
        /\ \E r \in {Resume(i)} :
               /\ Commit(r.w)
               /\ tasks' = [tasks EXCEPT ![i] = Task(r, tasks[i].fail, tasks[i].cooled)]
        /\ UNCHANGED <<seen, out, script, pos, resolverVars, cfg, now, cur, last, lastDone>>

\* await self.execute_cb(sig) raises an Exception, caught and printed:
\* lines 168-169
ExecRaises ==
    \E i \in DOMAIN tasks :
        /\ tasks[i].pc = "await"
        /\ \E r \in {Resume(i)} :
               /\ Commit(r.w)
               /\ tasks' = [tasks EXCEPT ![i] = Task(r, "exception", tasks[i].cooled)]
        /\ UNCHANGED <<seen, out, script, pos, resolverVars, cfg, now, cur, last, lastDone>>

\* await self.execute_cb(sig) raises CancelledError: no Exception, so neither
\* line 168 nor line 201 catches it and the handler ends there
ExecCancelled ==
    \E i \in DOMAIN tasks :
        /\ tasks[i].pc = "await"
        /\ tasks' = [tasks EXCEPT ![i] = [@ EXCEPT !.pc = "cancelled",
                                                   !.fail = "cancelled",
                                                   !.cooled = FALSE]]
        /\ UNCHANGED <<parserVars, resolverVars, followerVars, calls, log>>

NextLive ==
    \/ Tick
    \/ OnMsg
    \/ ExecReturns
    \/ ExecRaises
    \/ ExecCancelled

SpecLive == InitLive /\ [][NextLive]_vars

----------------------------------------------------------------------------
(* SpecLong: one stream source reading a long run of lines of one block    *)

MaxLong == 13

LongLines == {AssetLine("EURUSD"), CallLine}

InitLong == Init

FeedLong ==
    /\ Len(fed) < MaxLong
    /\ \E l \in LongLines : ReadLine(l)
    /\ UNCHANGED <<script, pos, resolverVars, followerVars, liveVars>>

NextLong == FeedLong

SpecLong == InitLong /\ [][NextLong]_vars

----------------------------------------------------------------------------
(* Claims                                                                  *)

\* The calls among the first n that returned a Signal
Emitting(n) == {i \in 1..n : rets[i] # None}

\* The parser's emissions among the first n calls, in order
RECURSIVE Emissions(_)
Emissions(n) ==
    IF n = 0 THEN <<>>
    ELSE IF rets[n] = None THEN Emissions(n - 1)
    ELSE Append(Emissions(n - 1), rets[n][1])

\* The position of line l in the first block of script
IndexOf(l) == CHOOSE i \in 1..BlockLen : script[i] = l

AllFields(sig) ==
    /\ sig.timeframe_min # None
    /\ sig.trade_time # None
    /\ sig.trend # None
    /\ sig.forecast_pct # None
    /\ sig.payout_pct # None

\* C1 as stated: after the seven lines of a block in any order and a blank
\* line, feed_line has returned exactly one Signal, with all seven fields
\* present.
C1_AnyOrderOneFullSignal ==
    pos = BlockLen + 1 =>
        /\ Cardinality(Emitting(pos)) = 1
        /\ \A i \in Emitting(pos) : AllFields(rets[i][1])

\* C1 amended: after the seven lines of a block and a blank line, feed_line
\* has returned a Signal exactly when the asset marker precedes the direction
\* line; it is returned by the call of the direction line and holds the asset,
\* the direction and exactly the fields whose lines lie between the two.
C1_SignalAtDirectionLine ==
    pos = BlockLen + 1 =>
        LET ia == IndexOf(AssetLine("EURUSD"))
            id == IndexOf(PutLine)
            Has(l) == ia < IndexOf(l) /\ IndexOf(l) < id
        IN  /\ id < ia => Emitting(pos) = {}
            /\ ia < id =>
                  /\ Emitting(pos) = {id}
                  /\ rets[id][1].asset = "EURUSD"
                  /\ rets[id][1].direction = "put"
                  /\ rets[id][1].timeframe_min = IF Has(TfLine) THEN Some(1) ELSE None
                  /\ rets[id][1].trade_time = IF Has(TtLine) THEN Some("10:00") ELSE None
                  /\ rets[id][1].trend = IF Has(TrendLine) THEN Some("Sell") ELSE None
                  /\ rets[id][1].forecast_pct = IF Has(ForecastLine) THEN Some(73) ELSE None
                  /\ rets[id][1].payout_pct = IF Has(PayoutLine) THEN Some(82) ELSE None
                  /\ AllFields(rets[id][1]) <=> (ia = 1 /\ id = BlockLen)

\* A block with the asset marker first and the direction last has been fed
\* and its one Signal holds all seven fields.
C1_Witness ==
    /\ pos = BlockLen + 1
    /\ script[1] = AssetLine("EURUSD")
    /\ script[BlockLen] = PutLine
    /\ Emitting(pos) = {BlockLen}
    /\ AllFields(rets[BlockLen][1])

IsPlainAssetLine(l) ==
    _ASSET_LINE_RE(l) # None /\ _normalize_direction_from_line(l) = None
IsDirectionLine(l) ==
    l.k = "other" /\ _normalize_direction_from_line(l) # None

\* C2: a line that carries neither an asset marker nor a direction token
\* never makes feed_line return a Signal, whatever was fed before it.
C2_NoAssetNoDirectionNoSignal ==
    \A i \in 1..Len(fed) :
        (_ASSET_LINE_RE(fed[i]) = None /\ _normalize_direction_from_line(fed[i]) = None)
            => rets[i] = None

\* A blank line was fed right after an emission, with asset and trade time
\* pending, and returned nothing.
C2_Witness ==
    /\ Len(fed) = 4
    /\ fed[4] = BlankLine
    /\ rets[3] # None
    /\ rets[3][1].trade_time # None
    /\ rets[4] = None
    /\ "asset" \in DOMAIN state
    /\ "trade_time" \in DOMAIN state

\* C3: from a fresh parser an asset marker (and possibly a timeframe line),
\* then a direction line, returns one Signal without trade time; a further
\* direction line returns a second Signal with the same asset and timeframe.
C3_LenientThenReuse ==
    \A k \in {0, 1} :
        ( /\ Len(fed) >= k + 2
          /\ IsPlainAssetLine(fed[1])
          /\ k = 1 => fed[2] = TfLine
          /\ IsDirectionLine(fed[k + 2]) )
        => /\ Emitting(k + 2) = {k + 2}
           /\ rets[k + 2][1].trade_time = None
           /\ rets[k + 2][1].asset = fed[1].v
           /\ rets[k + 2][1].direction = _normalize_direction_from_line(fed[k + 2])[1]
           /\ rets[k + 2][1].timeframe_min = IF k = 1 THEN Some(1) ELSE None
           /\ (Len(fed) >= k + 3 /\ IsDirectionLine(fed[k + 3]))
                => /\ rets[k + 3] # None
                   /\ rets[k + 3][1].asset = rets[k + 2][1].asset
                   /\ rets[k + 3][1].timeframe_min = rets[k + 2][1].timeframe_min
                   /\ rets[k + 3][1].trade_time = None
                   /\ rets[k + 3][1].direction =
                          _normalize_direction_from_line(fed[k + 3])[1]

\* Asset marker, timeframe, call, put: two Signals for the one pending block.
C3_Witness ==
    /\ fed = <<AssetLine("EURUSD"), TfLine, CallLine, PutLine>>
    /\ Emitting(4) = {3, 4}
    /\ rets[4][1].timeframe_min = Some(1)
    /\ rets[3][1].direction = "call"
    /\ rets[4][1].direction = "put"

\* s without the elements whose key an earlier element of s has
RECURSIVE FirstOfEachKey(_)
FirstOfEachKey(s) ==
    IF s = <<>> THEN <<>>
    ELSE LET n    == Len(s)
             init == SubSeq(s, 1, n - 1)
         IN  IF \E j \in 1..(n - 1) : key(s[j]) = key(s[n])
             THEN FirstOfEachKey(init)
             ELSE Append(FirstOfEachKey(init), s[n])

\* C4: what a stream source forwards is the parser's emissions, in order,
\* without those whose key was forwarded before; no two forwarded signals
\* share a key, and at most one signal without trade time is forwarded for
\* an asset and direction.
C4_ForwardedIsDedupedEmissions ==
    /\ out = FirstOfEachKey(Emissions(Len(rets)))
    /\ seen = {key(out[i]) : i \in 1..Len(out)}
    /\ \A i, j \in 1..Len(out) : key(out[i]) = key(out[j]) => i = j
    /\ \A i, j \in 1..Len(out) :
          ( /\ out[i].trade_time = None
            /\ out[j].trade_time = None
            /\ out[i].asset = out[j].asset
            /\ out[i].direction = out[j].direction ) => i = j

\* Two blocks of the same asset each emitted a call without trade time, and
\* only the first was forwarded.
C4_Witness ==
    /\ fed = <<AssetLine("EURUSD"), CallLine, AssetLine("EURUSD"), CallLine>>
    /\ Emitting(4) = {2, 4}
    /\ Len(out) = 1

\* C5: the same complete block fed twice through one stream source forwards
\* exactly one Signal in total.
C5_SameBlockTwiceForwardsOne ==
    pos = 2 * (BlockLen + 1) => Len(out) = 1

\* Both copies of the block emitted, and one Signal was forwarded.
C5_Witness ==
    /\ pos = 2 * (BlockLen + 1)
    /\ Cardinality(Emitting(pos)) = 2
    /\ Len(out) = 1

IsWellFormed(parts) ==
    /\ Len(parts) \in {2, 3}
    /\ \A i \in 1..Len(parts) : parts[i] # None
    /\ HourOK(parts[1][1])
    /\ \A i \in 2..Len(parts) : SixtyOK(parts[i][1])

\* The wall-clock time of epoch e, in seconds of the day, at offset off
WallClock(e, off) == (e + off) % DaySeconds
\* The local calendar day of an instant in milliseconds at offset off
LocalDay(ms, off) == (ms + off * 1000) \div (DaySeconds * 1000)
\* hhmm as seconds of the day
SecondOfDay(parts) ==
    parts[1][1] * 3600 + parts[2][1] * 60 + (IF Len(parts) > 2 THEN parts[3][1] ELSE 0)

\* C6: for a well-formed trade time the resolver returns the one epoch e with
\* reference < e <= reference + one day whose wall-clock time at the zone's
\* offset is the trade time: on the reference's local day when that instant
\* is strictly after the reference, on the next day otherwise.
C6_NextOccurrence ==
    (resolved # None /\ IsWellFormed(hhmm)) =>
        LET e == resolved[1]
            today == (ref_ts + tz * 1000) % (DaySeconds * 1000) < SecondOfDay(hhmm) * 1000
        IN  /\ ref_ts < e * 1000
            /\ e * 1000 <= ref_ts + DaySeconds * 1000
            /\ WallClock(e, tz) = SecondOfDay(hhmm)
            /\ LocalDay(e * 1000, tz) = LocalDay(ref_ts, tz) + (IF today THEN 0 ELSE 1)
            /\ \A k \in {-1, 1} :
                  LET e2 == e + k * DaySeconds
                  IN  ~(ref_ts < e2 * 1000 /\ e2 * 1000 <= ref_ts + DaySeconds * 1000)

\* The trade time is the reference's own wall-clock time, and the resolver
\* returned the same time one day later.
C6_Witness ==
    /\ resolved # None
    /\ IsWellFormed(hhmm)
    /\ tz = 19800
    /\ (ref_ts + tz * 1000) % (DaySeconds * 1000) = SecondOfDay(hhmm) * 1000
    /\ resolved[1] * 1000 = ref_ts + DaySeconds * 1000

\* C7: for a trade time that is malformed (wrong number of fields, a
\* non-numeric field) or out of range the resolver returns the unscheduled
\* sentinel.
C7_MalformedIsUnscheduled ==
    (resolved # None /\ ~IsWellFormed(hhmm)) => resolved[1] = Unscheduled

\* What the latest filtered signal met: a forecast below the minimum, a
\* running cooldown of its asset, an entry missed by more than the grace
ForecastLow(r) ==
    r.sig.forecast_pct # None /\ r.sig.forecast_pct[1] < cfg.min_forecast
InCooldown(r) == r.t < r.cd_until
Lateness(r) == r.t - (r.sig.trade_epoch[1] - r.sig.entry_lead_s)
EntryMissed(r) ==
    r.sig.trade_epoch # None /\ Lateness(r) > cfg.allow_past_grace_s
IgnoredFor(r, reason) == r.sig.ignored /\ r.sig.reason = reason
Accepted(r) == ~r.sig.ignored /\ r.sig.reason = "ok"

\* C8: the verdict of the admission filter is the first rule that matches in
\* the order forecast below minimum, asset in cooldown, entry missed beyond
\* the grace, accepted.
C8_FirstMatchWins ==
    last # None =>
        LET r == last[1]
        IN  /\ ForecastLow(r) => IgnoredFor(r, "forecast<min")
            /\ (~ForecastLow(r) /\ InCooldown(r)) => IgnoredFor(r, "asset_cooldown")
            /\ (~ForecastLow(r) /\ ~InCooldown(r) /\ EntryMissed(r))
                  => IgnoredFor(r, "missed_entry")
            /\ (~ForecastLow(r) /\ ~InCooldown(r) /\ ~EntryMissed(r)) => Accepted(r)

\* A signal with a low forecast, in cooldown and with a missed entry was
\* ignored for its forecast.
C8_Witness ==
    /\ last # None
    /\ ForecastLow(last[1])
    /\ InCooldown(last[1])
    /\ EntryMissed(last[1])
    /\ IgnoredFor(last[1], "forecast<min")

C10_MissedEntryBeyondGrace ==
    (last # None /\ last[1].sig.trade_epoch # None) =>
        LET r == last[1]
        IN  (~ForecastLow(r) /\ ~InCooldown(r)) =>
                /\ IgnoredFor(r, "missed_entry") <=> Lateness(r) > cfg.allow_past_grace_s
                /\ Lateness(r) <= cfg.allow_past_grace_s => Accepted(r)
                /\ Lateness(r) > cfg.allow_past_grace_s => r.sig.ignored

\* A signal late by exactly the grace was accepted.
C10_Witness ==
    /\ last # None
    /\ last[1].sig.trade_epoch # None
    /\ ~ForecastLow(last[1])
    /\ ~InCooldown(last[1])
    /\ Lateness(last[1]) = cfg.allow_past_grace_s
    /\ Accepted(last[1])

\* C11: a signal without trade epoch (no trade time, or a trade time the
\* resolver could not resolve) is never ignored as a missed entry: only the
\* forecast and cooldown rules apply, and it is accepted when both pass.
C11_UnscheduledSkipsMissedEntry ==
    (last # None /\ last[1].sig.trade_epoch = None) =>
        LET r == last[1]
        IN  /\ r.sig.reason # "missed_entry"
            /\ ForecastLow(r) => IgnoredFor(r, "forecast<min")
            /\ (~ForecastLow(r) /\ InCooldown(r)) => IgnoredFor(r, "asset_cooldown")
            /\ (~ForecastLow(r) /\ ~InCooldown(r)) => Accepted(r)

\* A signal whose trade time did not resolve was accepted long after the
\* clock started.
C11_Witness ==
    /\ last # None
    /\ last[1].sig.trade_time = Some("25:00")
    /\ last[1].sig.trade_epoch = None
    /\ last[1].t > cfg.allow_past_grace_s + cfg.lead_s
    /\ Accepted(last[1])

\* C12: once the handling of a filtered signal has ended, whatever the
\* verdict, the cooldown table is the table from before the signal with the
\* entry of the signal's asset set to the handling time plus the cooldown
\* duration, the other entries unchanged.
C12_EveryVerdictSetsCooldown ==
    (cur = None /\ last # None) =>
        LET r == last[1]
        IN  \E t \in r.t..now :
                cooldowns =
                    [a \in DOMAIN r.cd_before \cup {r.sig.asset} |->
                        IF a = r.sig.asset THEN t + cfg.cooldown_same_asset_s
                        ELSE r.cd_before[a]]

\* C13: when the callback of an accepted signal fails, by an exception or by
\* a cancellation raised inside it, the handling of the signal still writes
\* the cooldown of its asset and the handler still feeds the lines left of
\* its message.
C13_FailedCallbackKeepsCooldownAndLoop ==
    \A i \in DOMAIN tasks :
        tasks[i].fail # "" =>
            /\ tasks[i].cooled
            /\ tasks[i].pc = "cancelled" => tasks[i].rest = <<>>

\* C14: while the callback of an accepted signal has not completed, no line
\* of the same message waits for it: the lines after the signal are fed.
C14_IngestionNeverWaits ==
    \A i \in DOMAIN tasks : tasks[i].pc = "await" => tasks[i].rest = <<>>

\* C15: after feed_line processed an asset-marker line the pending record
\* holds the line's ticker as asset and no timeframe, trade_time, trend,
\* forecast or payout, and the raw-line buffer is that line alone, whether or
\* not the call returned a Signal.
C15_AssetMarkerResets ==
    (fed # <<>> /\ StartsWithCard(fed[Len(fed)])) =>
        LET l == fed[Len(fed)]
        IN  /\ DOMAIN state \cap {"timeframe_min", "trade_time", "trend",
                                  "forecast_pct", "payout_pct"} = {}
            /\ block_lines = <<l>>
            /\ _ASSET_LINE_RE(l) # None => Get(state, "asset") = _ASSET_LINE_RE(l)

C15_Witness ==
    /\ Len(fed) = 4
    /\ fed[1] = AssetLine("EURUSD")
    /\ fed[2] = TfLine
    /\ fed[3] = TtLine
    /\ fed[4] = AssetPutLine
    /\ rets[4] # None
    /\ state = [asset |-> "EUR-PUT"]

\* The pending record st is the one the Signal sig was made of, less direction
PendingOf(st, sig) ==
    /\ "direction" \notin DOMAIN st
    /\ Get(st, "asset") = Some(sig.asset)
    /\ Get(st, "trade_time") = sig.trade_time
    /\ Get(st, "trend") = sig.trend
    /\ sig.timeframe_min = IF "timeframe_min" \in DOMAIN st
                           THEN Some(ParseInt(st["timeframe_min"])) ELSE None
    /\ sig.forecast_pct = IF "forecast_pct" \in DOMAIN st
                          THEN Some(ParseFloat(st["forecast_pct"])) ELSE None
    /\ sig.payout_pct = IF "payout_pct" \in DOMAIN st
                        THEN Some(ParseFloat(st["payout_pct"])) ELSE None

C16_Step ==
    Len(fed') = Len(fed) + 1 =>
        LET l == fed'[Len(fed')]
            r == rets'[Len(rets')]
        IN  /\ r # None =>
                  /\ PendingOf(state', r[1])
                  /\ \A k \in DOMAIN state \ {"direction"} :
                         StartsWithCard(l) \/ k \in DOMAIN state'
            /\ (r = None /\ (IsBlank(l) \/ StartsWithWin(l))) => state' = state

\* C16: a feed_line call that returns a Signal leaves the pending record as
\* it was at the emission less the direction, the Signal's fields being the
\* fields of that record; an attempt on a blank or outcome line that returns
\* nothing changes no field.
C16_EmissionClearsOnlyDirection == [][C16_Step]_vars

C16_Witness ==
    /\ Len(fed) = 4
    /\ rets[4] # None
    /\ rets[4][1].timeframe_min = Some(1)
    /\ rets[4][1].trade_time = Some("10:00")
    /\ state = [asset |-> rets[4][1].asset, timeframe_min |-> "1", trade_time |-> "10:00"]

\* C17: the raw-line buffer holds at most 12 lines in every state, and every
\* raw_block is made of at most 12 lines.
C17_BufferAtMostTwelve ==
    /\ Len(block_lines) <= RawWindow
    /\ \A i \in DOMAIN rets : rets[i] # None => Len(rets[i][1].raw_block) <= RawWindow

\* C18: after every feed_line call the pending record does not hold an asset
\* and a direction together; a blank or outcome line returns no Signal, an
\* asset-marker line returns none of the block before it, and every Signal is
\* returned by the call that fed the line setting its direction.
C18_NeverAssetAndDirection ==
    /\ ~({"asset", "direction"} \subseteq DOMAIN state)
    /\ \A i \in DOMAIN rets :
           rets[i] # None =>
               /\ ~IsBlank(fed[i])
               /\ ~StartsWithWin(fed[i])
               /\ _normalize_direction_from_line(fed[i]) = Some(rets[i][1].direction)
               /\ StartsWithCard(fed[i]) => _ASSET_LINE_RE(fed[i]) = Some(rets[i][1].asset)

C18_Witness ==
    /\ Len(fed) = 4
    /\ fed[1] = PutLine
    /\ rets[3] # None
    /\ fed[4] \in {BlankLine, WinLine, AssetLine("USDBDT-OTC")}
    /\ rets[4] = None

\* C19: no two signals of one asset with different keys are both handed to
\* the callback within one cooldown duration of each other.
C19_NoTwoCallbacksWithinCooldown ==
    \A i, j \in DOMAIN calls :
        (i < j /\ calls[i].asset = calls[j].asset /\ calls[i].key # calls[j].key) =>
            calls[j].t - calls[i].t >= cfg.cooldown_same_asset_s

\* C20: under any interleaving of the handlers each key is filtered and
\* logged once and handed to the callback at most once, and a call on a seen
\* key changes neither table: the seen keys are the logged ones, and every
\* cooldown is the one written for a logged signal.
C20_EachKeyHandledOnce ==
    /\ \A i, j \in DOMAIN log : log[i].key = log[j].key => i = j
    /\ \A i, j \in DOMAIN calls : calls[i].key = calls[j].key => i = j
    /\ \A i \in DOMAIN calls : \E j \in DOMAIN log : log[j].key = calls[i].key
    /\ seen_keys = {log[i].key : i \in DOMAIN log}
    /\ ncalls >= Len(log)
    /\ \A a \in DOMAIN cooldowns :
           \E j \in DOMAIN log :
               /\ log[j].asset = a
               /\ log[j].done # None
               /\ cooldowns[a] = log[j].done[1] + cfg.cooldown_same_asset_s

C20_Witness ==
    /\ ncalls > Len(log)
    /\ Len(calls) = 2
    /\ \E i \in DOMAIN tasks : tasks[i].pc = "await"
    /\ \E a \in DOMAIN cooldowns : now < cooldowns[a]

====
